---- MODULE Spec2Model ----
(***************************************************************************)
(* A model of repo_scanner.py: the classifier, the sanitizer, the reader,  *)
(* the tree builder, the content collector and the two exporters.          *)
(*                                                                         *)
(* Representation.  File names, relative paths and tree lines are TLA+     *)
(* strings.  File contents and texts that may hold control characters are  *)
(* sequences of code points; raw file contents are sequences of bytes.     *)
(* The four box-drawing tokens of the tree are written with ASCII          *)
(* stand-ins of the same width (four characters), since a TLA+ string      *)
(* holds ASCII only.                                                       *)
(***************************************************************************)
EXTENDS Integers, Sequences, FiniteSets, TLC

VARIABLES
    \* sanitize_xml_content called on its own
    s_text, s_once, s_twice, s_pc,
    \* read_file_content called on its own
    r_bytes, r_ioFailAt, r_result, r_pc,
    \* should_include_file called on its own
    c_name, c_size, c_stat, c_result, c_pc,
    \* the scanned directory tree and the two traversals
    fs, listOrder, fault, tree, file_contents, scan_pc,
    \* one run of the program (__main__ and the exporters)
    choice, pc, index, word_doc, elements, disk, outcome

sanVars == <<s_text, s_once, s_twice, s_pc>>
readVars == <<r_bytes, r_ioFailAt, r_result, r_pc>>
classVars == <<c_name, c_size, c_stat, c_result, c_pc>>
fsVars == <<fs, listOrder, fault>>
scanVars == <<tree, file_contents, scan_pc>>
runVars == <<choice, pc, index, word_doc, elements, disk, outcome>>
vars == <<sanVars, readVars, classVars, fsVars, scanVars, runVars>>
\* what a run of the program leaves alone
others == <<scan_pc, sanVars, readVars, classVars, fsVars>>

----------------------------------------------------------------------------
(* Strings *)

UPPER == "ABCDEFGHIJKLMNOPQRSTUVWXYZ"
LOWER == "abcdefghijklmnopqrstuvwxyz"
DIGITS == "0123456789"

CharAt(s, i) == SubSeq(s, i, i)

\* The other characters the model's names, paths and lines use, with their codes.
PUNCT ==
    << <<" ", 32>>, <<"(", 40>>, <<")", 41>>, <<"+", 43>>, <<"-", 45>>,
       <<".", 46>>, <<"/", 47>>, <<":", 58>>, <<"=", 61>>, <<"[", 91>>,
       <<"]", 93>>, <<"_", 95>>, <<"|", 124>> >>

CharSet ==
    {CharAt(UPPER, i) : i \in 1..Len(UPPER)} \cup {CharAt(LOWER, i) : i \in 1..Len(LOWER)}
    \cup {CharAt(DIGITS, i) : i \in 1..Len(DIGITS)} \cup {PUNCT[i][1] : i \in 1..Len(PUNCT)}

\* ord(c)
Ord ==
    [c \in CharSet |->
        IF \E i \in 1..Len(UPPER) : CharAt(UPPER, i) = c
        THEN 64 + (CHOOSE i \in 1..Len(UPPER) : CharAt(UPPER, i) = c)
        ELSE IF \E i \in 1..Len(LOWER) : CharAt(LOWER, i) = c
        THEN 96 + (CHOOSE i \in 1..Len(LOWER) : CharAt(LOWER, i) = c)
        ELSE IF \E i \in 1..Len(DIGITS) : CharAt(DIGITS, i) = c
        THEN 47 + (CHOOSE i \in 1..Len(DIGITS) : CharAt(DIGITS, i) = c)
        ELSE PUNCT[CHOOSE i \in 1..Len(PUNCT) : PUNCT[i][1] = c][2]]

\* str.lower() of one character
LowerChar ==
    [c \in CharSet |->
        IF \E i \in 1..Len(UPPER) : CharAt(UPPER, i) = c
        THEN CharAt(LOWER, CHOOSE i \in 1..Len(UPPER) : CharAt(UPPER, i) = c)
        ELSE c]

RECURSIVE StrLower(_)
\* str.lower()
StrLower(s) == IF s = "" THEN "" ELSE LowerChar[Head(s)] \o StrLower(Tail(s))

RECURSIVE StrLess(_, _)
\* a < b on str: lexicographic by code point
StrLess(a, b) ==
    IF b = "" THEN FALSE
    ELSE IF a = "" THEN TRUE
    ELSE IF Head(a) # Head(b) THEN Ord[Head(a)] < Ord[Head(b)]
    ELSE StrLess(Tail(a), Tail(b))

\* s.rfind(c), 1-based; 0 when c does not occur
RFind(s, c) ==
    IF \E i \in 1..Len(s) : CharAt(s, i) = c
    THEN CHOOSE i \in 1..Len(s) :
            CharAt(s, i) = c /\ \A j \in (i + 1)..Len(s) : CharAt(s, j) # c
    ELSE 0

\* str.startswith(c) for a one-character c
StartsWith(s, c) == Len(s) >= 1 /\ CharAt(s, 1) = c

\* PurePath.suffix: the name from its last dot on, unless that dot is the
\* first or the last character of the name
Suffix(name) ==
    LET i == RFind(name, ".")
    IN  IF 1 < i /\ i < Len(name) THEN SubSeq(name, i, Len(name)) ELSE ""

RECURSIVE CodesOf(_)
\* the code points of a string
CodesOf(s) == IF s = "" THEN <<>> ELSE <<Ord[Head(s)]>> \o CodesOf(Tail(s))

----------------------------------------------------------------------------
(* Classifier *)

TEXT_EXTENSIONS ==
    {".py", ".js", ".jsx", ".ts", ".tsx", ".html", ".css", ".scss", ".sass",
     ".json", ".xml", ".yaml", ".yml", ".txt", ".md", ".markdown", ".rst",
     ".c", ".cpp", ".h", ".hpp", ".java", ".go", ".rs", ".php", ".rb",
     ".sh", ".bash", ".sql", ".r", ".m", ".swift", ".kt", ".scala",
     ".vue", ".svelte", ".conf", ".config", ".ini", ".toml", ".env",
     ".log", ".csv", ".tsv", ".gitignore", ".dockerignore", "Dockerfile",
     "Makefile", ".editorconfig", "requirements.txt", "package.json"}

BINARY_EXTENSIONS ==
    {".png", ".jpg", ".jpeg", ".gif", ".bmp", ".ico", ".svg", ".webp",
     ".mp4", ".avi", ".mov", ".mkv", ".mp3", ".wav", ".flac",
     ".zip", ".tar", ".gz", ".rar", ".7z", ".bz2",
     ".exe", ".dll", ".so", ".dylib", ".bin",
     ".pdf", ".doc", ".docx", ".xls", ".xlsx", ".ppt", ".pptx",
     ".pyc", ".pyo", ".class", ".o", ".obj",
     ".db", ".sqlite", ".sqlite3"}

SKIP_DIRECTORIES ==
    {".git", ".svn", ".hg", "__pycache__", "node_modules",
     ".venv", "venv", "env", ".env", "virtualenv",
     ".idea", ".vscode", ".vs", ".pytest_cache", ".mypy_cache",
     "dist", "build", ".eggs", "*.egg-info", "target"}

CONVENTIONAL_NAMES == {"makefile", "dockerfile", "readme", "license", "changelog"}

\* 10 * 1024 * 1024, the size above which should_include_file gives up
SIZE_LIMIT == 10 * 1024 * 1024

\* should_include_file(file_path): name is file_path.name, size is st_size,
\* statOk is whether file_path.stat() returns rather than raising OSError
should_include_file(name, size, statOk) ==
    LET ext == StrLower(Suffix(name))
        lname == StrLower(name)
    IN  IF ext \in BINARY_EXTENSIONS THEN FALSE
        ELSE IF ext \in TEXT_EXTENSIONS THEN TRUE
        ELSE IF ext = "" /\ lname \in CONVENTIONAL_NAMES THEN TRUE
        ELSE IF ~statOk THEN FALSE
        ELSE IF size > SIZE_LIMIT THEN FALSE
        ELSE FALSE

should_skip_directory_ListOnly(dir_name) == dir_name \in SKIP_DIRECTORIES

\* should_skip_directory(dir_name)
should_skip_directory(dir_name) ==
    dir_name \in SKIP_DIRECTORIES \/ StartsWith(dir_name, ".")

----------------------------------------------------------------------------
(* Sanitizer *)

\* the character class [\x00-\x08\x0B\x0C\x0E-\x1F\x7F-\x9F] of the re.sub
ControlClass == (0..8) \cup {11, 12} \cup (14..31) \cup (127..159)

sanitize_xml_content_NulOnly(text) ==
    IF text = <<>> THEN text ELSE SelectSeq(text, LAMBDA c : c # 0)

\* sanitize_xml_content(text), text a sequence of code points
sanitize_xml_content(text) ==
    IF text = <<>> THEN text
    ELSE LET noNul == SelectSeq(text, LAMBDA c : c # 0)
         IN  SelectSeq(noNul, LAMBDA c : c \notin ControlClass)

----------------------------------------------------------------------------
(* Reader *)

encodings == <<"utf-8", "utf-8-sig", "latin-1", "cp1252", "iso-8859-1">>

DecodeError == [ok |-> FALSE, text |-> <<>>]
Decoded(text) == [ok |-> TRUE, text |-> text]

IsCont(b) == b \in 128..191

RECURSIVE Utf8From(_, _, _)
\* The strict UTF-8 decoder from byte i on: 1 to 4 byte forms, with the
\* overlong forms, the surrogates and everything above U+10FFFF rejected.
Utf8From(b, i, acc) ==
    IF i > Len(b) THEN Decoded(acc)
    ELSE LET b1 == b[i]
             has(n) == i + n <= Len(b)
         IN  IF b1 < 128 THEN Utf8From(b, i + 1, Append(acc, b1))
             ELSE IF b1 \in 194..223
             THEN IF has(1) /\ IsCont(b[i + 1])
                  THEN Utf8From(b, i + 2,
                           Append(acc, (b1 - 192) * 64 + (b[i + 1] - 128)))
                  ELSE DecodeError
             ELSE IF b1 \in 224..239
             THEN IF /\ has(2)
                     /\ b[i + 1] \in (IF b1 = 224 THEN 160..191
                                      ELSE IF b1 = 237 THEN 128..159
                                      ELSE 128..191)
                     /\ IsCont(b[i + 2])
                  THEN Utf8From(b, i + 3,
                           Append(acc, (b1 - 224) * 4096 + (b[i + 1] - 128) * 64
                                       + (b[i + 2] - 128)))
                  ELSE DecodeError
             ELSE IF b1 \in 240..244
             THEN IF /\ has(3)
                     /\ b[i + 1] \in (IF b1 = 240 THEN 144..191
                                      ELSE IF b1 = 244 THEN 128..143
                                      ELSE 128..191)
                     /\ IsCont(b[i + 2]) /\ IsCont(b[i + 3])
                  THEN Utf8From(b, i + 4,
                           Append(acc, (b1 - 240) * 262144 + (b[i + 1] - 128) * 4096
                                       + (b[i + 2] - 128) * 64 + (b[i + 3] - 128)))
                  ELSE DecodeError
             ELSE DecodeError

Utf8Decode(b) == Utf8From(b, 1, <<>>)

\* utf-8-sig: a leading EF BB BF is dropped, the rest is UTF-8
Utf8SigDecode(b) ==
    IF Len(b) >= 3 /\ SubSeq(b, 1, 3) = <<239, 187, 191>>
    THEN Utf8Decode(SubSeq(b, 4, Len(b)))
    ELSE Utf8Decode(b)

\* latin-1 and iso-8859-1: every byte is its own code point
Latin1Decode(b) == Decoded(b)

CP1252_UNDEFINED == {129, 141, 143, 144, 157}

CP1252_HIGH ==
    << <<128, 8364>>, <<130, 8218>>, <<131, 402>>, <<132, 8222>>, <<133, 8230>>,
       <<134, 8224>>, <<135, 8225>>, <<136, 710>>, <<137, 8240>>, <<138, 352>>,
       <<139, 8249>>, <<140, 338>>, <<142, 381>>, <<145, 8216>>, <<146, 8217>>,
       <<147, 8220>>, <<148, 8221>>, <<149, 8226>>, <<150, 8211>>, <<151, 8212>>,
       <<152, 732>>, <<153, 8482>>, <<154, 353>>, <<155, 8250>>, <<156, 339>>,
       <<158, 382>>, <<159, 376>> >>

Cp1252Char(x) ==
    IF x \in 128..159
    THEN CP1252_HIGH[CHOOSE k \in 1..Len(CP1252_HIGH) : CP1252_HIGH[k][1] = x][2]
    ELSE x

Cp1252Decode(b) ==
    IF \E i \in 1..Len(b) : b[i] \in CP1252_UNDEFINED THEN DecodeError
    ELSE Decoded([i \in 1..Len(b) |-> Cp1252Char(b[i])])

\* bytes.decode(encoding, errors='strict')
Decode(encoding, b) ==
    CASE encoding = "utf-8" -> Utf8Decode(b)
      [] encoding = "utf-8-sig" -> Utf8SigDecode(b)
      [] encoding = "latin-1" -> Latin1Decode(b)
      [] encoding = "cp1252" -> Cp1252Decode(b)
      [] encoding = "iso-8859-1" -> Latin1Decode(b)

RECURSIVE UniversalNewlines(_)
\* open(..., 'r') reads with newline=None: "\r\n" and a lone "\r" become "\n"
UniversalNewlines(t) ==
    IF t = <<>> THEN <<>>
    ELSE IF Head(t) = 13
    THEN IF Len(t) >= 2 /\ t[2] = 10
         THEN <<10>> \o UniversalNewlines(SubSeq(t, 3, Len(t)))
         ELSE <<10>> \o UniversalNewlines(Tail(t))
    ELSE <<Head(t)>> \o UniversalNewlines(Tail(t))

\* str(e) of the exception an open() or read() raises: one representative text
IO_ERROR_TEXT == "Permission denied"

UNDECODABLE == CodesOf("[Error: Unable to decode file with supported encodings]")
ERROR_READING == CodesOf("[Error reading file: " \o IO_ERROR_TEXT \o "]")

RECURSIVE ReadFromLatin1First(_, _, _)
ReadFromLatin1First(b, ioFailAt, k) ==
    IF k > Len(encodings) THEN UNDECODABLE
    ELSE IF ioFailAt = k THEN ERROR_READING
    ELSE LET order == <<"latin-1", "utf-8", "utf-8-sig", "cp1252", "iso-8859-1">>
             d == Decode(order[k], b)
         IN  IF d.ok THEN sanitize_xml_content(UniversalNewlines(d.text))
             ELSE ReadFromLatin1First(b, ioFailAt, k + 1)

RECURSIVE ReadFrom(_, _, _)
\* The loop of read_file_content from the k-th encoding on.  ioFailAt is the
\* attempt at which open() or read() raises an exception other than
\* UnicodeDecodeError (0: at none).
ReadFrom(b, ioFailAt, k) ==
    IF k > Len(encodings) THEN UNDECODABLE
    ELSE IF ioFailAt = k THEN ERROR_READING
    ELSE LET d == Decode(encodings[k], b)
         IN  IF d.ok THEN sanitize_xml_content(UniversalNewlines(d.text))
             ELSE ReadFrom(b, ioFailAt, k + 1)

\* read_file_content(file_path): b is the file's bytes
read_file_content(b, ioFailAt) == ReadFrom(b, ioFailAt, 1)

----------------------------------------------------------------------------
(* The scanned directory tree *)

\* A path is the sequence of names from the scan root down; <<>> is the root
\* (Path.cwd()).  The candidate entries, directories and files:
DIRS ==
    {<<"A">>, <<"src">>, <<"src", "pkg">>, <<"src", ".cache">>, <<"node_modules">>}

FILES ==
    {<<"a.txt">>, <<"b.txt">>, <<"image.png">>, <<"README">>,
     <<"src", "main.py">>, <<"src", "pkg", "mod.py">>,
     <<"src", ".cache", "c.txt">>, <<"node_modules", "x.js">>}

UNIVERSE == DIRS \cup FILES

ROOT == <<>>

\* the most entries a scanned tree holds
MaxEntries == 8

Parent(p) == SubSeq(p, 1, Len(p) - 1)
Name(p) == p[Len(p)]

\* the trees the scan may meet: every entry's parent is a directory of the tree
FileSystems ==
    {f \in SUBSET UNIVERSE :
        /\ Cardinality(f) <= MaxEntries
        /\ \A p \in f : Len(p) > 1 => Parent(p) \in f}

\* The bytes of each file.  b.txt is not UTF-8 and holds a NUL; image.png
\* starts as a PNG does.
FileBytes(p) ==
    CASE p = <<"src", "main.py">> -> CodesOf("print(1)")
      [] p = <<"a.txt">> -> <<104, 105, 13, 10>>
      [] p = <<"b.txt">> -> <<66, 0, 233>>
      [] p = <<"image.png">> -> <<137, 80, 78, 71>>
      [] p = <<"README">> -> CodesOf("Read me")
      [] p = <<"src", "pkg", "mod.py">> -> CodesOf("x = 1")
      [] p = <<"src", ".cache", "c.txt">> -> CodesOf("cache")
      [] p = <<"node_modules", "x.js">> -> CodesOf("x()")

\* mod.py cannot be opened; every other file can
FileIoFailAt(p) == IF p = <<"src", "pkg", "mod.py">> THEN 1 ELSE 0

\* the directories whose enumeration may fail, and how
NoFault == [dir |-> ROOT, kind |-> "none"]
Faults(f) ==
    {NoFault} \cup
    [dir : {ROOT} \cup (f \cap DIRS), kind : {"PermissionError", "OSError"}]

\* item.is_dir(), item.is_file()
is_dir(p) == p \in DIRS
is_file(p) == p \in FILES

RECURSIVE SortSet(_)
\* a set of names as the sequence ascending by code point
SortSet(S) ==
    IF S = {} THEN <<>>
    ELSE LET m == CHOOSE x \in S : \A y \in S \ {x} : StrLess(x, y)
         IN  <<m>> \o SortSet(S \ {m})

Reverse(q) == [i \in 1..Len(q) |-> q[Len(q) + 1 - i]]

\* root_path.iterdir(): the entries of dir in the order the system lists
\* them, which the program does not control
iterdir(dir) ==
    LET names == {Name(p) : p \in {q \in fs : Len(q) = Len(dir) + 1 /\ Parent(q) = dir}}
        asc == SortSet(names)
        listed == IF listOrder = "asc" THEN asc ELSE Reverse(asc)
    IN  [i \in 1..Len(listed) |-> Append(dir, listed[i])]

\* whether enumerating dir raises, and what
RaisedBy(dir) == IF fault.kind # "none" /\ fault.dir = dir THEN fault.kind ELSE "none"

SortKeyLess_RawName(x, y) ==
    \/ is_dir(x) /\ ~is_dir(y)
    \/ is_dir(x) = is_dir(y) /\ StrLess(Name(x), Name(y))

\* key(x) < key(y) for key = lambda x: (not x.is_dir(), x.name.lower())
SortKeyLess(x, y) ==
    \/ is_dir(x) /\ ~is_dir(y)
    \/ is_dir(x) = is_dir(y) /\ StrLess(StrLower(Name(x)), StrLower(Name(y)))

RECURSIVE InsertByKey(_, _)
\* x put into the sorted q after every element whose key is not greater
InsertByKey(q, x) ==
    IF q = <<>> THEN <<x>>
    ELSE IF SortKeyLess(x, Head(q)) THEN <<x>> \o q
    ELSE <<Head(q)>> \o InsertByKey(Tail(q), x)

RECURSIVE SortedFrom(_, _, _)
SortedFrom(q, k, acc) ==
    IF k > Len(q) THEN acc ELSE SortedFrom(q, k + 1, InsertByKey(acc, q[k]))

\* sorted(q, key=...): stable
sorted(q) == SortedFrom(q, 1, <<>>)

----------------------------------------------------------------------------
(* Tree Builder *)

\* Stand-ins for the box-drawing tokens, each four characters wide like the
\* original.
TREE_BRANCH == "|-- "
TREE_LAST == "+-- "
TREE_VERTICAL == "|   "
TREE_SPACE == "    "

\* str(e) of an enumeration error other than PermissionError: one
\* representative text
ENUM_ERROR_TEXT == "Input/output error"

\* One element of output_lines.  text is the string the program appends; item
\* and marker record which entry (or which failing directory) the line was
\* appended for.  The program keeps only the text.
EntryLine(text, item) == [text |-> text, item |-> item, marker |-> FALSE]
MarkerLine(text, dir) == [text |-> text, item |-> dir, marker |-> TRUE]

\* what a call hands back: the lines, and the exception leaving it, if any
Returned(lines) == [lines |-> lines, exc |-> "none"]
Raised(lines, exc) == [lines |-> lines, exc |-> exc]

TreeItems_Unfiltered(dir) == sorted(iterdir(dir))

\* lines 122-123: the sorted entries without the skipped directories
TreeItems(dir) ==
    SelectSeq(sorted(iterdir(dir)),
              LAMBDA item : ~(is_dir(item) /\ should_skip_directory(Name(item))))

\* line 127
Connector(is_last_item) == IF is_last_item THEN TREE_LAST ELSE TREE_BRANCH

Extension_AlwaysSpace(is_last_item) == TREE_SPACE

\* line 135
Extension(is_last_item) == IF is_last_item THEN TREE_SPACE ELSE TREE_VERTICAL

TreeHandler_PermissionOnly(r, dir, prefix) ==
    IF r.exc = "PermissionError"
    THEN Returned(Append(r.lines, MarkerLine(prefix \o "[Permission Denied]", dir)))
    ELSE r

\* lines 138-141: the two except clauses around the body
TreeHandler(r, dir, prefix) ==
    IF r.exc = "PermissionError"
    THEN Returned(Append(r.lines, MarkerLine(prefix \o "[Permission Denied]", dir)))
    ELSE IF r.exc # "none"
    THEN Returned(Append(r.lines,
                         MarkerLine(prefix \o "[Error: " \o ENUM_ERROR_TEXT \o "]", dir)))
    ELSE r

RECURSIVE generate_tree_structure(_, _, _, _)
RECURSIVE TreeLoop(_, _, _, _, _)
\* lines 125-136: the for loop from the k-th item on
TreeLoop(root_path, prefix, items, k, output_lines) ==
    IF k > Len(items) THEN Returned(output_lines)
    ELSE LET item == items[k]
             is_last_item == (k = Len(items))
             connector == Connector(is_last_item)
             text == IF is_dir(item)
                     THEN prefix \o connector \o Name(item) \o "/"
                     ELSE prefix \o connector \o Name(item)
             appended == Append(output_lines, EntryLine(text, item))
         IN  IF is_dir(item)
             THEN LET sub == generate_tree_structure(
                                 item, prefix \o Extension(is_last_item),
                                 is_last_item, appended)
                  IN  IF sub.exc # "none" THEN sub
                      ELSE TreeLoop(root_path, prefix, items, k + 1, sub.lines)
             ELSE TreeLoop(root_path, prefix, items, k + 1, appended)

\* generate_tree_structure(root_path, prefix, is_last, output_lines)
generate_tree_structure(root_path, prefix, is_last, output_lines) ==
    LET body == IF RaisedBy(root_path) # "none"
                THEN Raised(output_lines, RaisedBy(root_path))
                ELSE TreeLoop(root_path, prefix, TreeItems(root_path), 1, output_lines)
    IN  TreeHandler(body, root_path, prefix)

----------------------------------------------------------------------------
(* Content Collector *)

RECURSIVE JoinPath(_)
\* str(relative_path)
JoinPath(p) ==
    IF Len(p) = 1 THEN p[1] ELSE JoinPath(Parent(p)) \o "/" \o Name(p)

\* item.relative_to(base_path)
relative_to(item, base_path) == SubSeq(item, Len(base_path) + 1, Len(item))

RECURSIVE collect_file_contents(_, _)
RECURSIVE CollectLoop(_, _, _, _)
\* lines 172-183: the for loop from the k-th item on
CollectLoop(base_path, items, k, contents) ==
    IF k > Len(items) THEN contents
    ELSE LET item == items[k]
         IN  IF is_dir(item) /\ should_skip_directory(Name(item))
             THEN CollectLoop(base_path, items, k + 1, contents)
             ELSE IF is_file(item)
             THEN IF should_include_file(Name(item), Len(FileBytes(item)), TRUE)
                  THEN CollectLoop(base_path, items, k + 1,
                           Append(contents,
                                  <<JoinPath(relative_to(item, base_path)),
                                    read_file_content(FileBytes(item), FileIoFailAt(item))>>))
                  ELSE CollectLoop(base_path, items, k + 1, contents)
             ELSE CollectLoop(base_path, items, k + 1,
                      contents \o collect_file_contents(item, base_path))

\* collect_file_contents(root_path, base_path); an exception of the
\* enumeration is swallowed (lines 185-188) and what was gathered is returned
collect_file_contents(root_path, base_path) ==
    IF RaisedBy(root_path) # "none" THEN <<>>
    ELSE CollectLoop(base_path, sorted(iterdir(root_path)), 1, <<>>)

----------------------------------------------------------------------------
(* Exporters *)

\* Path.cwd() and its name
ROOT_DIR == "/home/user/repo"
ROOT_NAME == "repo"

\* the files after which a page break is added (lines 259 and 337)
WORD_BREAK_EVERY == 3
PDF_BREAK_EVERY == 2

RECURSIVE Repeat(_, _)
\* s * n
Repeat(s, n) == IF n = 0 THEN "" ELSE s \o Repeat(s, n - 1)

RECURSIVE JoinLines(_)
\* '\n'.join(lines), as code points
JoinLines(lines) ==
    IF lines = <<>> THEN <<>>
    ELSE IF Len(lines) = 1 THEN CodesOf(lines[1].text)
    ELSE CodesOf(Head(lines).text) \o <<10>> \o JoinLines(Tail(lines))

RECURSIVE Replace(_, _, _)
\* str.replace(c, rep) for a one-character c
Replace(t, c, rep) ==
    IF t = <<>> THEN <<>>
    ELSE (IF Head(t) = c THEN rep ELSE <<Head(t)>>) \o Replace(Tail(t), c, rep)

\* line 332: & first, then < and >
Escape(content) ==
    Replace(Replace(Replace(content, 38, <<38, 97, 109, 112, 59>>),
                    60, <<38, 108, 116, 59>>),
            62, <<38, 103, 116, 59>>)

\* One element of a document: a heading, paragraph or page break of the Word
\* document, a Paragraph, Spacer, Preformatted or PageBreak of the PDF.  text
\* holds a string, codes a text given as code points; role says what the
\* element was added for.
Element(role, text) == [role |-> role, text |-> text, codes |-> <<>>]
CodeElement(role, codes) == [role |-> role, text |-> "", codes |-> codes]

\* no document in memory
NoDocs == <<>>

\* str(e) of the exception add_paragraph raises: one representative text
EMBED_ERROR_TEXT == "invalid XML character"

\* lines 198-227
WordBegin ==
    /\ pc = "word_start" /\ outcome = "running"
    /\ tree' = generate_tree_structure(ROOT, "", TRUE, <<>>)
    /\ word_doc' =
          << Element("title", "Repository Dump"),
             Element("paragraph", "Root Directory: " \o ROOT_DIR),
             Element("paragraph", Repeat("=", 60)),
             Element("paragraph", ""),
             Element("heading", "Directory Structure"),
             Element("paragraph", ROOT_NAME \o "/"),
             CodeElement("tree", sanitize_xml_content(JoinLines(tree'.lines))),
             Element("page_break", "") >>
    /\ pc' = "word_collect"
    /\ UNCHANGED <<others, choice, index, elements, disk, outcome, file_contents>>

\* lines 231-233
WordCollect ==
    /\ pc = "word_collect" /\ outcome = "running"
    /\ file_contents' = collect_file_contents(ROOT, ROOT)
    /\ word_doc' = Append(word_doc,
           Element("heading",
                   "File Contents (" \o ToString(Len(file_contents')) \o " files)"))
    /\ index' = 0
    /\ pc' = "word_files"
    /\ UNCHANGED <<others, choice, elements, disk, outcome, tree>>

\* lines 235-260, one iteration: add_paragraph(content) either returns or
\* raises, and the except clause adds the error paragraph instead
WordFile ==
    /\ pc = "word_files" /\ outcome = "running"
    /\ index < Len(file_contents)
    /\ \E raises \in BOOLEAN :
          LET n == index + 1
              relative_path == file_contents[n][1]
              content == file_contents[n][2]
              header == << Element("rule", Repeat("-", 60)),
                           Element("file_header", "File: " \o relative_path),
                           Element("rule", Repeat("-", 60)) >>
              body == IF raises
                      THEN << Element("error", "[Error adding content: "
                                               \o EMBED_ERROR_TEXT \o "]") >>
                      ELSE << CodeElement("content", content) >>
              tail == IF n % WORD_BREAK_EVERY = 0
                      THEN << Element("paragraph", ""), Element("page_break", "") >>
                      ELSE << Element("paragraph", "") >>
          IN  /\ word_doc' = word_doc \o header \o body \o tail
              /\ index' = n
    /\ UNCHANGED <<others, choice, pc, elements, disk, outcome, tree, file_contents>>

\* lines 263-264
WordFooter ==
    /\ pc = "word_files" /\ outcome = "running"
    /\ index = Len(file_contents)
    /\ word_doc' = word_doc \o
           << Element("paragraph", Repeat("=", 60)),
              Element("footer", "Total files processed: "
                                \o ToString(Len(file_contents))) >>
    /\ pc' = "word_save"
    /\ UNCHANGED <<others, choice, index, elements, disk, outcome, tree, file_contents>>

\* line 266, doc.save(output_file): the file is opened for writing under its
\* final name
WordSaveBegin ==
    /\ pc = "word_save" /\ outcome = "running"
    /\ disk' = [disk EXCEPT !.docx = "partial"]
    /\ pc' = "word_saving"
    /\ UNCHANGED <<others, choice, index, word_doc, elements, outcome, tree, file_contents>>

\* line 266, doc.save(output_file): the last part is written and the file
\* closed; then lines 268-270 and the return to __main__ (lines 361-368)
WordSaveEnd ==
    /\ pc = "word_saving" /\ outcome = "running"
    /\ disk' = [disk EXCEPT !.docx = "complete"]
    /\ word_doc' = NoDocs
    /\ IF choice = "3"
       THEN pc' = "pdf_start" /\ outcome' = outcome
       ELSE pc' = "exit" /\ outcome' = "completed"
    /\ UNCHANGED <<others, choice, index, elements, tree, file_contents>>

\* lines 277-313; SimpleDocTemplate(output_file, ...) keeps the name and
\* opens nothing
PdfBegin ==
    /\ pc = "pdf_start" /\ outcome = "running"
    /\ tree' = generate_tree_structure(ROOT, "", TRUE, <<>>)
    /\ elements' =
          << Element("title", "Repository Dump"),
             Element("spacer", ""),
             Element("paragraph", "Root Directory: " \o ROOT_DIR),
             Element("paragraph", Repeat("=", 100)),
             Element("spacer", ""),
             Element("heading", "Directory Structure"),
             Element("spacer", ""),
             CodeElement("tree",
                 sanitize_xml_content(CodesOf(ROOT_NAME \o "/") \o <<10>>
                                      \o JoinLines(tree'.lines))),
             Element("page_break", "") >>
    /\ pc' = "pdf_collect"
    /\ UNCHANGED <<others, choice, index, word_doc, disk, outcome, file_contents>>

\* lines 317-320
PdfCollect ==
    /\ pc = "pdf_collect" /\ outcome = "running"
    /\ file_contents' = collect_file_contents(ROOT, ROOT)
    /\ elements' = elements \o
           << Element("heading",
                      "File Contents (" \o ToString(Len(file_contents')) \o " files)"),
              Element("spacer", "") >>
    /\ index' = 0
    /\ pc' = "pdf_files"
    /\ UNCHANGED <<others, choice, word_doc, disk, outcome, tree>>

\* lines 322-338, one iteration in which every call returns
PdfFile ==
    /\ pc = "pdf_files" /\ outcome = "running"
    /\ index < Len(file_contents)
    /\ LET n == index + 1
           relative_path == file_contents[n][1]
           content == file_contents[n][2]
           added == << Element("rule", Repeat("-", 100)),
                       Element("file_header", "File: " \o relative_path),
                       Element("rule", Repeat("-", 100)),
                       Element("spacer", ""),
                       CodeElement("content", Escape(content)),
                       Element("spacer", "") >>
           tail == IF n % PDF_BREAK_EVERY = 0
                   THEN << Element("page_break", "") >>
                   ELSE << >>
       IN  /\ elements' = elements \o added \o tail
           /\ index' = n
    /\ UNCHANGED <<others, choice, pc, word_doc, disk, outcome, tree, file_contents>>

\* lines 322-338, an iteration in which embedding the content raises: no
\* except clause is around line 333, so the exception leaves
\* generate_pdf_document and reaches lines 374-376, which print and re-raise
PdfFileRaises ==
    /\ pc = "pdf_files" /\ outcome = "running"
    /\ index < Len(file_contents)
    /\ outcome' = "crashed"
    /\ pc' = "exit"
    /\ elements' = NoDocs
    /\ word_doc' = NoDocs
    /\ UNCHANGED <<others, choice, index, disk, tree, file_contents>>

\* lines 341-342
PdfFooter ==
    /\ pc = "pdf_files" /\ outcome = "running"
    /\ index = Len(file_contents)
    /\ elements' = elements \o
           << Element("paragraph", Repeat("=", 100)),
              Element("footer", "Total files processed: "
                                \o ToString(Len(file_contents))) >>
    /\ pc' = "pdf_build"
    /\ UNCHANGED <<others, choice, index, word_doc, disk, outcome, tree, file_contents>>

\* line 345, doc.build(elements): the pages are laid out and the file is
\* opened for writing under its final name
PdfBuildBegin ==
    /\ pc = "pdf_build" /\ outcome = "running"
    /\ disk' = [disk EXCEPT !.pdf = "partial"]
    /\ pc' = "pdf_building"
    /\ UNCHANGED <<others, choice, index, word_doc, elements, outcome, tree, file_contents>>

\* line 345, doc.build(elements): laying out the content of a file raises
\* before the output file is opened; as at line 333, nothing catches it
PdfBuildRaises ==
    /\ pc = "pdf_build" /\ outcome = "running"
    /\ Len(file_contents) > 0
    /\ outcome' = "crashed"
    /\ pc' = "exit"
    /\ elements' = NoDocs
    /\ word_doc' = NoDocs
    /\ UNCHANGED <<others, choice, index, disk, tree, file_contents>>

\* line 345, doc.build(elements): the file is written out and closed; then
\* lines 347-349 and the return to __main__
PdfBuildEnd ==
    /\ pc = "pdf_building" /\ outcome = "running"
    /\ disk' = [disk EXCEPT !.pdf = "complete"]
    /\ elements' = NoDocs
    /\ pc' = "exit"
    /\ outcome' = "completed"
    /\ UNCHANGED <<others, choice, index, word_doc, tree, file_contents>>

\* lines 354-370: the menu
Menu ==
    /\ pc = "menu" /\ outcome = "running"
    /\ IF choice \in {"1", "3"} THEN pc' = "word_start" /\ outcome' = outcome
       ELSE IF choice = "2" THEN pc' = "pdf_start" /\ outcome' = outcome
       ELSE pc' = "exit" /\ outcome' = "invalid"
    /\ UNCHANGED <<others, choice, index, word_doc, elements, disk, tree, file_contents>>

\* lines 372-373: a KeyboardInterrupt at any point of the run; the process
\* prints the notice and ends, and the files stay as they are
Interrupt ==
    /\ outcome = "running"
    /\ outcome' = "cancelled"
    /\ pc' = "exit"
    /\ word_doc' = NoDocs
    /\ elements' = NoDocs
    /\ UNCHANGED <<others, choice, index, disk, tree, file_contents>>

----------------------------------------------------------------------------
(* Specifications *)

SanIdle == s_text = <<>> /\ s_once = <<>> /\ s_twice = <<>> /\ s_pc = "idle"
ReadIdle == r_bytes = <<>> /\ r_ioFailAt = 0 /\ r_result = <<>> /\ r_pc = "idle"
ClassIdle == c_name = "" /\ c_size = 0 /\ c_stat = TRUE /\ c_result = FALSE /\ c_pc = "idle"
FsIdle == fs = {} /\ listOrder = "asc" /\ fault = NoFault
ScanIdle == tree = Returned(<<>>) /\ file_contents = <<>> /\ scan_pc = "idle"
RunIdle ==
    /\ choice = "" /\ pc = "idle" /\ index = 0 /\ word_doc = NoDocs
    /\ elements = NoDocs /\ disk = [docx |-> "absent", pdf |-> "absent"]
    /\ outcome = "idle"

\* --- the sanitizer on every short text over an alphabet of code points:
\* NUL, C0 controls, tab, line feed, carriage return, a letter, DEL, a C1
\* control and a character above the C1 range
CODE_ALPHABET == {0, 8, 9, 10, 11, 13, 31, 65, 127, 159, 160}
MaxTextLen == 3
Texts == UNION {[1..n -> CODE_ALPHABET] : n \in 0..MaxTextLen}

InitSanitize ==
    /\ s_text \in Texts /\ s_once = <<>> /\ s_twice = <<>> /\ s_pc = "start"
    /\ ReadIdle /\ ClassIdle /\ FsIdle /\ ScanIdle /\ RunIdle

Sanitize ==
    /\ s_pc = "start"
    /\ s_once' = sanitize_xml_content(s_text)
    /\ s_pc' = "once"
    /\ UNCHANGED <<s_text, s_twice, readVars, classVars, fsVars, scanVars, runVars>>

SanitizeAgain ==
    /\ s_pc = "once"
    /\ s_twice' = sanitize_xml_content(s_once)
    /\ s_pc' = "twice"
    /\ UNCHANGED <<s_text, s_once, readVars, classVars, fsVars, scanVars, runVars>>

NextSanitize == Sanitize \/ SanitizeAgain
SpecSanitize == InitSanitize /\ [][NextSanitize]_vars

\* --- the reader on every short file over an alphabet of bytes: NUL, line
\* feed, carriage return, a letter, the two bytes of U+00E9 in UTF-8 and the
\* three bytes of the byte order mark
BYTE_ALPHABET == {0, 10, 13, 65, 195, 169, 239, 187, 191}
MaxBytes == 3
ByteStrings == UNION {[1..n -> BYTE_ALPHABET] : n \in 0..MaxBytes}

InitRead ==
    /\ r_bytes \in ByteStrings /\ r_ioFailAt \in 0..Len(encodings)
    /\ r_result = <<>> /\ r_pc = "start"
    /\ SanIdle /\ ClassIdle /\ FsIdle /\ ScanIdle /\ RunIdle

ReadFile ==
    /\ r_pc = "start"
    /\ r_result' = read_file_content(r_bytes, r_ioFailAt)
    /\ r_pc' = "done"
    /\ UNCHANGED <<r_bytes, r_ioFailAt, sanVars, classVars, fsVars, scanVars, runVars>>

NextRead == ReadFile
SpecRead == InitRead /\ [][NextRead]_vars

\* --- the classifier on a list of file names, sizes around the limit, and a
\* stat() that returns or raises
NAMES ==
    {"Makefile", "README", "main.py", "MAIN.PY", "image.png", "archive.tar.gz",
     "data.xyz", "notes", ".gitignore", "Dockerfile", "core.", "photo.JPG"}
SIZES == {0, 1024, SIZE_LIMIT, SIZE_LIMIT + 1, 15 * 1024 * 1024}

InitClassify ==
    /\ c_name \in NAMES /\ c_size \in SIZES /\ c_stat \in BOOLEAN
    /\ c_result = FALSE /\ c_pc = "start"
    /\ SanIdle /\ ReadIdle /\ FsIdle /\ ScanIdle /\ RunIdle

Classify ==
    /\ c_pc = "start"
    /\ c_result' = should_include_file(c_name, c_size, c_stat)
    /\ c_pc' = "done"
    /\ UNCHANGED <<c_name, c_size, c_stat, sanVars, readVars, fsVars, scanVars, runVars>>

NextClassify == Classify
SpecClassify == InitClassify /\ [][NextClassify]_vars

\* --- the two traversals on every tree of FileSystems, in either listing
\* order, with at most one directory whose enumeration fails
InitScan ==
    /\ fs \in FileSystems /\ listOrder \in {"asc", "desc"} /\ fault \in Faults(fs)
    /\ tree = Returned(<<>>) /\ file_contents = <<>> /\ scan_pc = "start"
    /\ SanIdle /\ ReadIdle /\ ClassIdle /\ RunIdle

GenerateTree ==
    /\ scan_pc = "start"
    /\ tree' = generate_tree_structure(ROOT, "", TRUE, <<>>)
    /\ scan_pc' = "tree"
    /\ UNCHANGED <<file_contents, sanVars, readVars, classVars, fsVars, runVars>>

CollectContents ==
    /\ scan_pc = "tree"
    /\ file_contents' = collect_file_contents(ROOT, ROOT)
    /\ scan_pc' = "done"
    /\ UNCHANGED <<tree, sanVars, readVars, classVars, fsVars, runVars>>

NextScan == GenerateTree \/ CollectContents
SpecScan == InitScan /\ [][NextScan]_vars

\* --- one run of the program, on the trees made of RUN_UNIVERSE, with each
\* output file absent or left by an earlier run
RUN_UNIVERSE ==
    {<<"a.txt">>, <<"b.txt">>, <<"image.png">>, <<"src">>, <<"src", "main.py">>}
RunFileSystems == {f \in FileSystems : f \subseteq RUN_UNIVERSE}

InitRun ==
    /\ fs \in RunFileSystems /\ listOrder = "asc" /\ fault = NoFault
    /\ choice \in {"1", "2", "3", "x"}
    /\ disk \in [docx : {"absent", "previous"}, pdf : {"absent", "previous"}]
    /\ pc = "menu" /\ outcome = "running" /\ index = 0
    /\ word_doc = NoDocs /\ elements = NoDocs
    /\ tree = Returned(<<>>) /\ file_contents = <<>> /\ scan_pc = "idle"
    /\ SanIdle /\ ReadIdle /\ ClassIdle

NextRun ==
    \/ Menu
    \/ WordBegin \/ WordCollect \/ WordFile \/ WordFooter
    \/ WordSaveBegin \/ WordSaveEnd
    \/ PdfBegin \/ PdfCollect \/ PdfFile \/ PdfFileRaises \/ PdfFooter
    \/ PdfBuildBegin \/ PdfBuildRaises \/ PdfBuildEnd
    \/ Interrupt
SpecRun == InitRun /\ [][NextRun]_vars

----------------------------------------------------------------------------
(* Properties of the sanitizer *)

\* the control characters: C0 and C1 and DEL, without tab, line feed and
\* carriage return
ForbiddenCodes == ((0..31) \ {9, 10, 13}) \cup (127..159)

\* C10: sanitizing a sanitized text changes nothing, and a sanitized text
\* holds no NUL and no control character other than tab, line feed and
\* carriage return.
C10_SanitizeIdempotent ==
    /\ s_pc \in {"once", "twice"} =>
          \A i \in 1..Len(s_once) : s_once[i] \notin ForbiddenCodes
    /\ s_pc = "twice" => s_twice = s_once

C10_Witness ==
    s_pc = "twice" /\ s_text = <<0, 9, 65>> /\ s_twice = <<9, 65>>

----------------------------------------------------------------------------
(* Properties of the reader *)

DecodableBy(k) == Decode(encodings[k], r_bytes).ok
SomeDecoding == \E k \in 1..Len(encodings) : DecodableBy(k)
FirstDecoding ==
    CHOOSE k \in 1..Len(encodings) :
        DecodableBy(k) /\ \A j \in 1..(k - 1) : ~DecodableBy(j)
\* the failing attempt is made: no earlier candidate decodes
IoFailureMet ==
    r_ioFailAt # 0 /\ \A j \in 1..(r_ioFailAt - 1) : ~DecodableBy(j)

\* C6: the reader returns the sanitized text of the first candidate, in the
\* listed order, that decodes the bytes, and no diagnostic string; the fixed
\* string when no candidate decodes them; and a diagnostic string with the
\* error's description when opening or reading fails otherwise.  It always
\* returns.
C6_ReaderFirstDecoding ==
    r_pc = "done" =>
        IF IoFailureMet THEN r_result = ERROR_READING
        ELSE IF SomeDecoding
        THEN /\ r_result = sanitize_xml_content(
                               UniversalNewlines(
                                   Decode(encodings[FirstDecoding], r_bytes).text))
             /\ r_result \notin {UNDECODABLE, ERROR_READING}
        ELSE r_result = UNDECODABLE

C6_Witness ==
    /\ r_pc = "done" /\ r_ioFailAt = 0
    /\ r_bytes = <<65, 169, 13>> /\ ~DecodableBy(1) /\ ~DecodableBy(2)
    /\ r_result = <<65, 169, 10>>

----------------------------------------------------------------------------
(* Properties of the classifier *)

\* C3: a file of an unlisted extension that is no conventional name is
\* included exactly when stat() succeeds and its size is at most 10 MiB;
\* Makefile is included whatever its size.
C3_UnknownFileIncludedUpToLimit ==
    c_pc = "done" =>
        LET ext == StrLower(Suffix(c_name))
            unlisted == /\ ext \notin TEXT_EXTENSIONS
                        /\ ext \notin BINARY_EXTENSIONS
                        /\ ~(ext = "" /\ StrLower(c_name) \in CONVENTIONAL_NAMES)
        IN  /\ unlisted => (c_result = (c_stat /\ c_size <= SIZE_LIMIT))
            /\ c_name = "Makefile" => c_result

----------------------------------------------------------------------------
(* Properties of the two traversals *)

Scanned == scan_pc = "done"

\* a directory name the traversals are to keep out of
SkipName(n) == n \in SKIP_DIRECTORIES \/ SubSeq(n, 1, 1) = "."

\* p lies below a directory of such a name
BelowSkipped(p) == \E k \in 1..(Len(p) - 1) : SkipName(p[k])

\* p lies below the directory d
Below(p, d) == Len(p) > Len(d) /\ SubSeq(p, 1, Len(d)) = d

EntryLines == {i \in 1..Len(tree.lines) : ~tree.lines[i].marker}
MarkerLines == {i \in 1..Len(tree.lines) : tree.lines[i].marker}
HasLine(p) == \E i \in EntryLines : tree.lines[i].item = p
LineOf(p) == CHOOSE i \in EntryLines : tree.lines[i].item = p
CollectedPaths == {file_contents[i][1] : i \in 1..Len(file_contents)}
TreeTexts == [i \in 1..Len(tree.lines) |-> tree.lines[i].text]

\* C1: no tree line and no collected pair belongs to an entry below a
\* directory whose name is in SKIP_DIRECTORIES or begins with a dot.
C1_NoDescentIntoSkipped ==
    Scanned =>
        \A p \in fs :
            BelowSkipped(p) =>
                /\ \A i \in 1..Len(tree.lines) : tree.lines[i].item # p
                /\ JoinPath(p) \notin CollectedPaths

C1_Witness ==
    /\ Scanned /\ fault = NoFault
    /\ <<"src", ".cache", "c.txt">> \in fs /\ <<"node_modules", "x.js">> \in fs
    /\ HasLine(<<"src">>) /\ Len(file_contents) > 0

ScenarioTree ==
    {<<"src">>, <<"src", "main.py">>, <<"node_modules">>,
     <<"node_modules", "x.js">>, <<"image.png">>}
InScenario == Scanned /\ fs = ScenarioTree /\ fault = NoFault
ScenarioContents == << <<"src/main.py", CodesOf("print(1)")>> >>
Lists(name) ==
    \E i \in 1..Len(tree.lines) :
        \E c \in {TREE_BRANCH, TREE_LAST} : tree.lines[i].text = c \o name

\* C2, as claimed: in the scenario the collection is the one pair
\* (src/main.py, print(1)), and the tree lists node_modules/ and image.png
\* but no child of node_modules.
C2_ScenarioAsClaimed ==
    InScenario =>
        /\ file_contents = ScenarioContents
        /\ Lists("node_modules/") /\ Lists("image.png")
        /\ ~HasLine(<<"node_modules", "x.js">>)

\* C2, amended: in the scenario the collection is the one pair
\* (src/main.py, print(1)), and the tree is src/, main.py under it, and
\* image.png: node_modules/ is left out of the tree with its children.
C2_ScenarioAmended ==
    InScenario =>
        /\ file_contents = ScenarioContents
        /\ TreeTexts = << TREE_BRANCH \o "src/",
                          TREE_VERTICAL \o TREE_LAST \o "main.py",
                          TREE_LAST \o "image.png" >>

C2_Witness == InScenario /\ Len(tree.lines) = 3 /\ Len(file_contents) = 1

\* the failing directory is one the tree builder comes to
FaultMet ==
    /\ fault.kind # "none"
    /\ \A k \in 1..Len(fault.dir) : ~SkipName(fault.dir[k])

\* an entry the tree is to list: not a skipped directory, nor below one
Listed(p) == ~BelowSkipped(p) /\ ~(is_dir(p) /\ SkipName(Name(p)))

\* p comes last among the listed entries of its directory: directories
\* before files, then by lowercased name
OrderedBefore(q, p) ==
    \/ is_dir(q) /\ ~is_dir(p)
    \/ is_dir(q) = is_dir(p) /\ StrLess(StrLower(Name(q)), StrLower(Name(p)))
LastListed(p) ==
    \A q \in fs : (q # p /\ Parent(q) = Parent(p) /\ Listed(q)) => OrderedBefore(q, p)

RECURSIVE AncestorTokens(_, _)
\* the prefix tokens of the ancestors of p from depth k on
AncestorTokens(p, k) ==
    IF k >= Len(p) THEN ""
    ELSE (IF LastListed(SubSeq(p, 1, k)) THEN TREE_SPACE ELSE TREE_VERTICAL)
         \o AncestorTokens(p, k + 1)

\* the prefix of the lines appended for what is in directory d
PrefixIn(d) == AncestorTokens(Append(d, "x"), 1)

\* C7: when enumerating a directory the builder comes to fails, the tree
\* holds exactly one marker line, for that directory and right after the
\* directory's own line, with the text of the error's kind; no line for
\* anything below the directory; a line for every other entry to list; and
\* no exception leaves generate_tree_structure.  Without such a failure the
\* tree holds no marker line.
C7_OneMarkerPerFailure ==
    /\ (Scanned /\ ~FaultMet) => (MarkerLines = {} /\ tree.exc = "none")
    /\ (Scanned /\ FaultMet) =>
           /\ tree.exc = "none"
           /\ Cardinality(MarkerLines) = 1
           /\ \A i \in MarkerLines :
                 /\ tree.lines[i].item = fault.dir
                 /\ tree.lines[i].text =
                       PrefixIn(fault.dir) \o
                       (IF fault.kind = "PermissionError" THEN "[Permission Denied]"
                        ELSE "[Error: " \o ENUM_ERROR_TEXT \o "]")
                 /\ IF fault.dir = ROOT THEN i = 1
                    ELSE /\ i > 1
                         /\ ~tree.lines[i - 1].marker
                         /\ tree.lines[i - 1].item = fault.dir
           /\ \A p \in fs :
                 HasLine(p) <=> (Listed(p) /\ ~Below(p, fault.dir))

C7_Witness ==
    /\ Scanned /\ fault = [dir |-> <<"src">>, kind |-> "OSError"]
    /\ <<"src", "main.py">> \in fs /\ <<"A">> \in fs /\ <<"a.txt">> \in fs
    /\ Len(tree.lines) >= 4

RECURSIVE IsSubsequence(_, _)
IsSubsequence(a, b) ==
    IF a = <<>> THEN TRUE
    ELSE IF b = <<>> THEN FALSE
    ELSE IF Head(a) = Head(b) THEN IsSubsequence(Tail(a), Tail(b))
    ELSE IsSubsequence(a, Tail(b))

\* the relative paths of the files of the tree, in the order of their lines
TreeFilePaths ==
    LET fileLines == SelectSeq(tree.lines, LAMBDA l : ~l.marker /\ is_file(l.item))
    IN  [i \in 1..Len(fileLines) |-> JoinPath(fileLines[i].item)]
CollectedSeq == [i \in 1..Len(file_contents) |-> file_contents[i][1]]

\* C8: the lines of the entries of one directory come with the directories
\* first and, within directories and within files, ascending by lowercased
\* name; b.txt, A/ and a.txt come as A, a.txt, b.txt; and the collected
\* paths are a subsequence of the tree's files in tree order.
C8_SameSiblingOrder ==
    Scanned =>
        /\ \A i, j \in EntryLines :
              (i < j /\ Parent(tree.lines[i].item) = Parent(tree.lines[j].item))
                  => OrderedBefore(tree.lines[i].item, tree.lines[j].item)
        /\ (HasLine(<<"b.txt">>) /\ HasLine(<<"A">>) /\ HasLine(<<"a.txt">>)) =>
              /\ LineOf(<<"A">>) < LineOf(<<"a.txt">>)
              /\ LineOf(<<"a.txt">>) < LineOf(<<"b.txt">>)
        /\ IsSubsequence(CollectedSeq, TreeFilePaths)

C8_Witness ==
    /\ Scanned /\ listOrder = "desc" /\ fault = NoFault
    /\ {<<"b.txt">>, <<"A">>, <<"a.txt">>, <<"README">>, <<"image.png">>} \subseteq fs
    /\ Len(file_contents) >= 3

\* C9: the line of an entry at depth d is d-1 prefix tokens, the vertical
\* bar for an ancestor that is not the last listed entry of its directory and
\* the blank for one that is, then the connector, the last-item one exactly
\* when the entry is the last listed of its directory, then the name, with a
\* trailing / for a directory.
C9_LineShape ==
    Scanned =>
        \A i \in EntryLines :
            LET p == tree.lines[i].item
            IN  tree.lines[i].text =
                    AncestorTokens(p, 1)
                    \o (IF LastListed(p) THEN TREE_LAST ELSE TREE_BRANCH)
                    \o Name(p)
                    \o (IF is_dir(p) THEN "/" ELSE "")

C9_Witness ==
    /\ Scanned /\ fault = NoFault
    /\ {<<"src", "pkg", "mod.py">>, <<"src", "main.py">>, <<"a.txt">>} \subseteq fs
    /\ \E i \in EntryLines :
          tree.lines[i].text = TREE_VERTICAL \o TREE_VERTICAL \o TREE_LAST \o "mod.py"

----------------------------------------------------------------------------
(* Properties of a run *)

\* C4: after an interrupt, no output file is half-written: each is absent,
\* the complete output of an earlier run, or the complete output of this run.
C4_NoHalfWrittenOutput ==
    outcome = "cancelled" =>
        /\ disk.docx \in {"absent", "previous", "complete"}
        /\ disk.pdf \in {"absent", "previous", "complete"}

CountRole(doc, role) == Cardinality({i \in 1..Len(doc) : doc[i].role = role})
\* every file header of doc is followed by the file's content or by a
\* diagnostic in its place, and the document ends with the footer
EveryFileEmbedded(doc) ==
    /\ CountRole(doc, "file_header") = Len(file_contents)
    /\ CountRole(doc, "content") + CountRole(doc, "error") = Len(file_contents)
    /\ doc # <<>> /\ doc[Len(doc)].role = "footer"

\* C5: in either exporter a failure to embed one file's content does not end
\* the run: a diagnostic takes the content's place, the later files are
\* processed, and the document is written with its footer.
C5_EmbeddingFailureRecovered ==
    /\ outcome # "crashed"
    /\ pc = "word_save" => EveryFileEmbedded(word_doc)
    /\ pc = "pdf_build" => EveryFileEmbedded(elements)

====
